---- MODULE Spec2Model ----
(***************************************************************************)
(* The file-based ingestion and forecast pipeline of the repository:       *)
(*   backfill_historical.py  (range-mode ingest)                           *)
(*   monthly_data_ingest.py  (incremental ingest)                          *)
(*   train_model.py          (initial full fit)                            *)
(*   monthly_forecast.py     (incremental forecaster)                      *)
(* and the keyed observation table of supabase_io.py.                      *)
(*                                                                         *)
(* Text values are modelled structurally: the string 'YYYY-MM' is the pair *)
(* <<y, m>>, the string 'YYYY-MM-DD' the triple <<y, m, d>>, a pandas      *)
(* Timestamp of a month start the record [year, month].  A float is        *)
(* [nan, v]: NaN is [nan |-> TRUE, v |-> 0].                               *)
(***************************************************************************)
EXTENDS Integers, Sequences, FiniteSets, TLC

VARIABLES
    provider,       \* the records the data provider currently serves, ascending by period
    processed,      \* data/processed/electricity_sales.parquet: [exists, rows]
    raw,            \* data/raw/**: set of [path, data] files
    log,            \* data/logs/pipeline_log.csv: the rows [script, status] the running
                    \* invocation has written (no script reads the file, and the rows
                    \* of finished invocations are not kept)
    modelPkl,       \* models/sarima_v1.pkl: [exists, endog]
    modelMeta,      \* models/sarima_v1.meta.json: [exists, meta]
    sarimaOut,      \* data/forecasts/sarima_forecasts.csv rows
    snaiveOut,      \* data/forecasts/seasonal_naive_forecasts.csv rows
    table,          \* electricity_sales table of supabase_io (period is the primary key)
    clock,          \* datetime.now(), one tick per invocation
    pc,             \* per process: position in the script it runs
    loc,            \* per process: the script's local variables
    pre,            \* per process: what the process found when it was invoked
    hist            \* history: [fcSettled, published]

vars == <<provider, processed, raw, log, modelPkl, modelMeta, sarimaOut, snaiveOut,
          table, clock, pc, loc, pre, hist>>

----------------------------------------------------------------------------
(* Bounds of the model *)

\* invocations of the scripts in one behaviour
MaxRuns == 3
\* records the provider publishes after the initial state
MaxPublish == 1
\* months of history the provider holds initially: a short and a long history
HistShort == 2
HistLong == 12

----------------------------------------------------------------------------
(* Calendar and value conversions *)

Ts(y, m) == [year |-> y, month |-> m]

\* Timestamp comparison
TsLess(a, b) == a.year < b.year \/ (a.year = b.year /\ a.month < b.month)

TsLeq(a, b) == a = b \/ TsLess(a, b)

\* dateutil relativedelta(months=n), after its _fix(): |months| > 11 carries into years
RelativeDelta(n) ==
    LET s == IF n < 0 THEN -1 ELSE 1
        a == n * s
    IN  IF a > 11 THEN [years |-> (a \div 12) * s, months |-> (a % 12) * s]
                  ELSE [years |-> 0, months |-> n]

NegDelta(d) == [years |-> -d.years, months |-> -d.months]

\* a variant that adds the months without carrying into the year
AddDeltaNoCarry(t, d) == Ts(t.year + d.years, t.month + d.months)

\* timestamp + relativedelta: add years and months, one carry or borrow of the month
AddDelta(t, d) ==
    LET y == t.year + d.years
        m == t.month + d.months
    IN  IF m > 12 THEN Ts(y + 1, m - 12)
        ELSE IF m < 1 THEN Ts(y - 1, m + 12)
        ELSE Ts(y, m)

\* Timestamp.strftime("%Y-%m")
StrfYm(t) == <<t.year, t.month>>

\* str(Timestamp.date())
IsoDate(t) == <<t.year, t.month, 1>>

\* pd.to_datetime of 'YYYY-MM' or 'YYYY-MM-DD'
ToDatetime(s) == Ts(s[1], s[2])

NaN == [nan |-> TRUE, v |-> 0]

Num(n) == [nan |-> FALSE, v |-> n]

\* a key a payload record does not have: the value of 'sales', the text of 'period'
Absent == [kind |-> "absent", v |-> 0]

NoPeriod == <<>>

\* pd.to_numeric(errors="coerce") of one raw payload value
ToNumeric(rawv) == IF rawv.kind = "num" THEN Num(rawv.v) ELSE NaN

----------------------------------------------------------------------------
(* Sequences of rows *)

RemoveAt(s, i) == SubSeq(s, 1, i - 1) \o SubSeq(s, i + 1, Len(s))

Periods(rows) == {rows[i].period : i \in 1..Len(rows)}

\* df["period"].max()
MaxPeriod(rows) ==
    CHOOSE p \in Periods(rows) : \A q \in Periods(rows) : TsLeq(q, p)

MinPeriod(rows) ==
    CHOOSE p \in Periods(rows) : \A q \in Periods(rows) : TsLeq(p, q)

IsSortedRows(rows) ==
    \A i \in 1..Len(rows) - 1 : TsLeq(rows[i].period, rows[i + 1].period)

\* df.sort_values("period"): the default sort is not stable, so rows of equal
\* period may come out in either order; every ascending arrangement is an outcome
RECURSIVE SortValues(_)
SortValues(rows) ==
    IF rows = <<>> THEN {<<>>}
    ELSE LET lo == MinPeriod(rows)
             firsts == {rows[i] : i \in {j \in 1..Len(rows) : rows[j].period = lo}}
             At(row) == CHOOSE i \in 1..Len(rows) : rows[i] = row
         IN  UNION {{<<row>> \o rest : rest \in SortValues(RemoveAt(rows, At(row)))} :
                       row \in firsts}

----------------------------------------------------------------------------
(* The data provider (EIA v2 retail-sales endpoint) *)

\* what the provider serves for one month of its history: a number, or for some
\* months a text that is no number
HistSales(t) ==
    LET k == (t.year * 12 + t.month + 1) % 3
    IN  IF k = 0 THEN [kind |-> "text", v |-> 0] ELSE [kind |-> "num", v |-> k]

RECURSIVE History(_, _)
\* n consecutive monthly records ending at period t
History(t, n) ==
    IF n = 0 THEN <<>>
    ELSE History(AddDelta(t, RelativeDelta(-1)), n - 1)
             \o <<[period |-> StrfYm(t), sales |-> HistSales(t)]>>

\* what the provider holds in the initial state: a short or a long history up to
\* November 2024, or a short one up to the last month of the backfill window
InitialProviders ==
    {History(Ts(2024, 11), HistShort), History(Ts(2024, 11), HistLong),
     History(Ts(2025, 6), HistShort)}

\* the value of a newly published record
PublishValues == {[kind |-> "num", v |-> 7]}

\* the 'start'/'end' filter of the endpoint: records of the window, in the served order
Fetch(start, end) ==
    SelectSeq(provider, LAMBDA r : \/ r.period = NoPeriod
                                   \/ /\ TsLeq(ToDatetime(start), ToDatetime(r.period))
                                      /\ TsLeq(ToDatetime(r.period), ToDatetime(end)))

\* backfill_historical.PARAMS
BackfillStart == <<2001, 1>>
BackfillEnd == <<2025, 6>>

----------------------------------------------------------------------------
(* Scripts *)

Procs == {1}

RuntimeScripts == {"backfill_historical.py", "monthly_data_ingest.py", "monthly_forecast.py"}

Idle == "idle"

NoLoc == [script |-> "none"]

NoFile == [exists |-> FALSE]

NoPre == [none |-> TRUE]

\* the status text of a log row: its message and the values formatted into it
Status(msg, args) == [msg |-> msg, args |-> args]

\* a variant that opens the log for writing instead of appending
LogEventOverwrite(script, status) == <<[script |-> script, status |-> status]>>

\* log_event(script_name, status): one row appended to pipeline_log.csv
LogEvent(script, status) == Append(log, [script |-> script, status |-> status])

OutcomeOf(row) ==
    CASE row.status.msg = "ERROR" -> "error"
      [] row.status.msg \in {"No data update", "No new obs available"} -> "no_update"
      [] OTHER -> "success"

----------------------------------------------------------------------------
(* Process bookkeeping *)

AllIdle == \A r \in Procs : pc[r] = Idle

Goto(r, label) == pc' = [pc EXCEPT ![r] = label]

SetLoc(r, l) == loc' = [loc EXCEPT ![r] = l]

\* the run ends: control leaves the script with this outcome
Finish(r, outcome) ==
    /\ pc' = [pc EXCEPT ![r] = "done"]
    /\ loc' = [loc EXCEPT ![r] = [script |-> loc[r].script, outcome |-> outcome]]

\* open(path, "w") / to_parquet: the file at the path is replaced
WriteFile(fs, path, data) ==
    {f \in fs : f.path # path} \cup {[path |-> path, data |-> data]}

Snapshot ==
    [processed |-> processed, raw |-> raw, log |-> log, modelPkl |-> modelPkl,
     modelMeta |-> modelMeta, sarimaOut |-> sarimaOut, snaiveOut |-> snaiveOut]

FirstPc(script) ==
    CASE script = "backfill_historical.py" -> "bf_fetch"
      [] script = "monthly_data_ingest.py" -> "mi_load"
      [] script = "train_model.py" -> "tr_load"
      [] script = "monthly_forecast.py" -> "fc_load_processed"

\* the scheduler invokes a script; invocations do not overlap
Start(r, script) ==
    /\ AllIdle
    /\ clock < MaxRuns
    /\ clock' = clock + 1
    /\ Goto(r, FirstPc(script))
    /\ SetLoc(r, [script |-> script])
    /\ pre' = [pre EXCEPT ![r] = Snapshot]
    /\ UNCHANGED <<provider, processed, raw, log, modelPkl, modelMeta, sarimaOut,
                   snaiveOut, table, hist>>

\* control has left the script: the process is free again
Exit(r) ==
    /\ pc[r] = "done"
    /\ Goto(r, Idle)
    /\ SetLoc(r, NoLoc)
    /\ pre' = [pre EXCEPT ![r] = NoPre]
    /\ log' = <<>>
    /\ hist' = [hist EXCEPT !.fcSettled =
                   IF loc[r].script = "monthly_forecast.py"
                   THEN loc[r].outcome \in {"success", "no_update"}
                   ELSE @]
    /\ UNCHANGED <<provider, processed, raw, modelPkl, modelMeta, sarimaOut,
                   snaiveOut, table, clock>>

\* an exception of the type with the message is raised at the current position:
\* control passes to the except clause of the script, the locals are gone
Throw(r, type, msg) ==
    /\ Goto(r, "except")
    /\ SetLoc(r, [script |-> loc[r].script,
                  exc |-> [type |-> type, msg |-> msg, at |-> pc[r]]])

\* positions inside a script's try block
TryPcs ==
    {"bf_fetch", "bf_save_raw", "bf_transform", "bf_log",
     "mi_load", "mi_fetch", "mi_log_noupdate", "mi_save_raw", "mi_write", "mi_log_updated",
     "tr_load", "tr_fit", "tr_meta", "tr_log",
     "fc_load_processed", "fc_load_model", "fc_log_noupdate", "fc_append", "fc_dump_pkl",
     "fc_dump_meta", "fc_log_update", "fc_sarima", "fc_snaive", "fc_log_final"}

\* the statement at the current position raises (I/O, HTTP or numerical error)
\* before it has any effect: control passes to the except clause
Raise(r) ==
    /\ pc[r] \in TryPcs
    /\ Throw(r, "Exception", "")
    /\ UNCHANGED <<provider, processed, raw, log, modelPkl, modelMeta, sarimaOut,
                   snaiveOut, table, clock, pre, hist>>

\* a variant of the handler that re-raises without logging
ExceptSilent(r) ==
    /\ pc[r] = "except"
    /\ Finish(r, "error")
    /\ UNCHANGED <<provider, processed, raw, log, modelPkl, modelMeta, sarimaOut,
                   snaiveOut, table, clock, pre, hist>>

\* except Exception as e: log_event(script, f"ERROR: {e}"); raise
\* (the log write of the handler is taken to succeed)
Except(r) ==
    /\ pc[r] = "except"
    /\ log' = LogEvent(loc[r].script, Status("ERROR", <<loc[r].exc.msg>>))
    /\ Finish(r, "error")
    /\ UNCHANGED <<provider, processed, raw, modelPkl, modelMeta, sarimaOut,
                   snaiveOut, table, clock, pre, hist>>

----------------------------------------------------------------------------
(* The provider publishes *)

ProviderLast == ToDatetime(provider[Len(provider)].period)

\* a record for the month after the latest one, or a further record for the
\* latest month; only between invocations, a fetch being one atomic read
Publish ==
    /\ AllIdle
    /\ Len(provider) > 0
    /\ hist.published < MaxPublish
    /\ \E v \in PublishValues, same \in BOOLEAN :
          LET t == IF same THEN ProviderLast ELSE AddDelta(ProviderLast, RelativeDelta(1))
          IN  provider' = Append(provider, [period |-> StrfYm(t), sales |-> v])
    /\ hist' = [hist EXCEPT !.published = @ + 1]
    /\ UNCHANGED <<processed, raw, log, modelPkl, modelMeta, sarimaOut, snaiveOut,
                   table, clock, pc, loc, pre>>

----------------------------------------------------------------------------
(* backfill_historical.py: range-mode ingest *)

\* pd.DataFrame(records) has a column for every key some record has;
\* df[["period", "sales"]] raises KeyError when one of the two is no column
HasColumns(data) ==
    /\ \E i \in 1..Len(data) : data[i].period # NoPeriod
    /\ \E i \in 1..Len(data) : data[i].sales # Absent

ColumnsMissing == "None of [Index(['period', 'sales'])] are in the [columns]"

\* transform(data), up to the sort: the 'period' and 'sales' columns, converted
\* (payloads whose records all have the same keys)
TransformRows(data) ==
    [i \in 1..Len(data) |-> [period |-> ToDatetime(data[i].period),
                             sales |-> ToNumeric(data[i].sales)]]

\* data = fetch_data()
BfFetch(r) ==
    /\ pc[r] = "bf_fetch"
    /\ SetLoc(r, [script |-> loc[r].script, data |-> Fetch(BackfillStart, BackfillEnd)])
    /\ Goto(r, "bf_save_raw")
    /\ UNCHANGED <<provider, processed, raw, log, modelPkl, modelMeta, sarimaOut,
                   snaiveOut, table, clock, pre, hist>>

\* save_raw(data): a new file named by the time of the call
BfSaveRaw(r) ==
    /\ pc[r] = "bf_save_raw"
    /\ raw' = WriteFile(raw, [dir |-> "backfill", name |-> <<clock>>], loc[r].data)
    /\ Goto(r, "bf_transform")
    /\ UNCHANGED <<provider, processed, log, modelPkl, modelMeta, sarimaOut,
                   snaiveOut, table, clock, loc, pre, hist>>

\* df = transform(data); save_processed(df).  A payload without records, or
\* whose records lack a key, has no such column and df[["period", "sales"]]
\* raises KeyError
BfTransform(r) ==
    /\ pc[r] = "bf_transform"
    /\ IF ~HasColumns(loc[r].data)
       THEN /\ Throw(r, "KeyError", ColumnsMissing)
            /\ UNCHANGED <<processed, hist>>
       ELSE \E df \in SortValues(TransformRows(loc[r].data)) :
                /\ processed' = [exists |-> TRUE, rows |-> df]
                /\ SetLoc(r, [script |-> loc[r].script, df |-> df])
                /\ hist' = [hist EXCEPT !.fcSettled = FALSE]
                /\ Goto(r, "bf_log")
    /\ UNCHANGED <<provider, raw, log, modelPkl, modelMeta, sarimaOut,
                   snaiveOut, table, clock, pre>>

\* log_event(script_name, "Backfill completed. ...")
BfLog(r) ==
    /\ pc[r] = "bf_log"
    /\ log' = LogEvent(loc[r].script,
                       Status("Backfill completed",
                              <<Len(loc[r].df), StrfYm(MinPeriod(loc[r].df)),
                                StrfYm(MaxPeriod(loc[r].df))>>))
    /\ Finish(r, "success")
    /\ UNCHANGED <<provider, processed, raw, modelPkl, modelMeta, sarimaOut,
                   snaiveOut, table, clock, pre, hist>>

----------------------------------------------------------------------------
(* monthly_data_ingest.py: incremental ingest *)

\* transform(data): no records gives an empty frame; otherwise the two columns,
\* converted (and not sorted)
Transform(data) == IF data = <<>> THEN <<>> ELSE TransformRows(data)

\* eia_client.transform_raw_to_df(raw): an empty frame for no records and for
\* records without the two columns; otherwise the two columns, converted and sorted
TransformRawToDf(data) ==
    IF data = <<>> \/ ~HasColumns(data) THEN {<<>>} ELSE SortValues(TransformRows(data))

\* pd.concat([df_existing, df_new]).sort_values("period"): the rows of the batch
\* are added to the rows of the store
ApplyBatch(existing, new) == SortValues(existing \o new)

\* a variant that, without the processed file, starts from the first month of
\* the backfill window instead of raising
MiLoadFromStart(r) ==
    /\ pc[r] = "mi_load"
    /\ SetLoc(r, [script |-> loc[r].script,
                  df_existing |-> IF processed.exists THEN processed.rows ELSE <<>>,
                  next_month |-> IF processed.exists
                                 THEN StrfYm(AddDelta(MaxPeriod(processed.rows), RelativeDelta(1)))
                                 ELSE BackfillStart])
    /\ Goto(r, "mi_fetch")
    /\ UNCHANGED <<provider, processed, raw, log, modelPkl, modelMeta, sarimaOut,
                   snaiveOut, table, clock, pre, hist>>

\* df_existing = pd.read_parquet(...); latest_stored; next_month.  Without the
\* processed file: RuntimeError("No processed data found. Run backfill first.")
MiLoad(r) ==
    /\ pc[r] = "mi_load"
    /\ IF processed.exists
       THEN /\ SetLoc(r, [script |-> loc[r].script,
                          df_existing |-> processed.rows,
                          next_month |-> StrfYm(AddDelta(MaxPeriod(processed.rows),
                                                         RelativeDelta(1)))])
            /\ Goto(r, "mi_fetch")
       ELSE /\ Throw(r, "RuntimeError", "No processed data found. Run backfill first.")
    /\ UNCHANGED <<provider, processed, raw, log, modelPkl, modelMeta, sarimaOut,
                   snaiveOut, table, clock, pre, hist>>

\* data = fetch_month(next_month); df_new = transform(data): KeyError when the
\* records lack a key
MiFetch(r) ==
    /\ pc[r] = "mi_fetch"
    /\ LET data == Fetch(loc[r].next_month, loc[r].next_month)
       IN  IF data # <<>> /\ ~HasColumns(data)
           THEN Throw(r, "KeyError", ColumnsMissing)
           ELSE /\ SetLoc(r, [script |-> loc[r].script, df_existing |-> loc[r].df_existing,
                              next_month |-> loc[r].next_month, data |-> data,
                              df_new |-> Transform(data)])
                /\ Goto(r, IF Transform(data) = <<>> THEN "mi_log_noupdate" ELSE "mi_save_raw")
    /\ UNCHANGED <<provider, processed, raw, log, modelPkl, modelMeta, sarimaOut,
                   snaiveOut, table, clock, pre, hist>>

\* a variant that archives the payload before it logs that there is no update
MiLogNoUpdateArchiving(r) ==
    /\ pc[r] = "mi_log_noupdate"
    /\ raw' = WriteFile(raw, [dir |-> "monthly", name |-> loc[r].next_month], loc[r].data)
    /\ log' = LogEvent(loc[r].script, Status("No data update", <<loc[r].next_month>>))
    /\ Finish(r, "no_update")
    /\ UNCHANGED <<provider, processed, modelPkl, modelMeta, sarimaOut,
                   snaiveOut, table, clock, pre, hist>>

\* log_event(script_name, "No data update. Expected ..., but none available.")
MiLogNoUpdate(r) ==
    /\ pc[r] = "mi_log_noupdate"
    /\ log' = LogEvent(loc[r].script, Status("No data update", <<loc[r].next_month>>))
    /\ Finish(r, "no_update")
    /\ UNCHANGED <<provider, processed, raw, modelPkl, modelMeta, sarimaOut,
                   snaiveOut, table, clock, pre, hist>>

\* a variant that goes on to the write without archiving the payload
MiSaveRawSkipped(r) ==
    /\ pc[r] = "mi_save_raw"
    /\ Goto(r, "mi_write")
    /\ UNCHANGED <<provider, processed, raw, log, modelPkl, modelMeta, sarimaOut,
                   snaiveOut, table, clock, loc, pre, hist>>

\* save_raw(data, next_month.replace("-", "")): monthly_YYYYMM.json, opened "w"
MiSaveRaw(r) ==
    /\ pc[r] = "mi_save_raw"
    /\ raw' = WriteFile(raw, [dir |-> "monthly", name |-> loc[r].next_month], loc[r].data)
    /\ Goto(r, "mi_write")
    /\ UNCHANGED <<provider, processed, log, modelPkl, modelMeta, sarimaOut,
                   snaiveOut, table, clock, loc, pre, hist>>

\* df_updated = concat + sort_values; df_updated.to_parquet(...); to_csv(...)
MiWrite(r) ==
    /\ pc[r] = "mi_write"
    /\ \E df_updated \in ApplyBatch(loc[r].df_existing, loc[r].df_new) :
          processed' = [exists |-> TRUE, rows |-> df_updated]
    /\ hist' = [hist EXCEPT !.fcSettled = FALSE]
    /\ Goto(r, "mi_log_updated")
    /\ UNCHANGED <<provider, raw, log, modelPkl, modelMeta, sarimaOut,
                   snaiveOut, table, clock, loc, pre>>

\* log_event(script_name, "Data updated with new row for ...")
MiLogUpdated(r) ==
    /\ pc[r] = "mi_log_updated"
    /\ log' = LogEvent(loc[r].script, Status("Data updated", <<loc[r].next_month>>))
    /\ Finish(r, "success")
    /\ UNCHANGED <<provider, processed, raw, modelPkl, modelMeta, sarimaOut,
                   snaiveOut, table, clock, pre, hist>>

----------------------------------------------------------------------------
(* train_model.py: the initial full fit *)

MODEL_NAME == "sarima_v1"

\* df = load_processed(): FileNotFoundError without the processed file
TrLoad(r) ==
    /\ pc[r] = "tr_load"
    /\ IF processed.exists
       THEN \E df \in SortValues(processed.rows) :
                /\ SetLoc(r, [script |-> loc[r].script, df |-> df])
                /\ Goto(r, "tr_fit")
       ELSE /\ Throw(r, "FileNotFoundError", "Processed file not found. Run backfill first.")
    /\ UNCHANGED <<provider, processed, raw, log, modelPkl, modelMeta, sarimaOut,
                   snaiveOut, table, clock, pre, hist>>

\* fitted = SARIMAX(y, ...).fit(); joblib.dump(fitted, MODEL_PKL): the fitted
\* results hold the series they were fitted on
TrFit(r) ==
    /\ pc[r] = "tr_fit"
    /\ modelPkl' = [exists |-> TRUE, endog |-> loc[r].df]
    /\ Goto(r, "tr_meta")
    /\ UNCHANGED <<provider, processed, raw, log, modelMeta, sarimaOut,
                   snaiveOut, table, clock, loc, pre, hist>>

\* meta = {...}; json.dump(meta, f)
TrMeta(r) ==
    /\ pc[r] = "tr_meta"
    /\ LET meta == [model_name |-> MODEL_NAME,
                    trained_from |-> IsoDate(MinPeriod(loc[r].df)),
                    trained_through |-> IsoDate(MaxPeriod(loc[r].df)),
                    last_observed |-> IsoDate(MaxPeriod(loc[r].df)),
                    created_at |-> clock,
                    updated_at |-> <<>>]
       IN  /\ modelMeta' = [exists |-> TRUE, meta |-> meta]
           /\ SetLoc(r, [script |-> loc[r].script, meta |-> meta])
    /\ Goto(r, "tr_log")
    /\ UNCHANGED <<provider, processed, raw, log, modelPkl, sarimaOut,
                   snaiveOut, table, clock, pre, hist>>

\* log_event(script, "Trained SARIMA model ...")
TrLog(r) ==
    /\ pc[r] = "tr_log"
    /\ log' = LogEvent(loc[r].script,
                       Status("Trained", <<loc[r].meta.trained_from, loc[r].meta.trained_through,
                                           loc[r].meta.last_observed>>))
    /\ Finish(r, "success")
    /\ UNCHANGED <<provider, processed, raw, modelPkl, modelMeta, sarimaOut,
                   snaiveOut, table, clock, pre, hist>>

----------------------------------------------------------------------------
(* monthly_forecast.py: the incremental forecaster *)

\* fitted.forecast(steps=1): a number computed from the series the results hold
Forecast(endog) == Num(Len(endog))

\* a variant that returns the results it was given
AppendObsDropped(endog, new_obs) == endog

\* fitted.append(series, refit=False): the results with the new rows after the old
AppendObs(endog, new_obs) == endog \o new_obs

\* a variant that compares with >=
NewObsNotBefore(df, last_in_model) ==
    SelectSeq(df, LAMBDA row : TsLeq(last_in_model, row.period))

\* df[df["period"] > last_in_model]
NewObs(df, last_in_model) == SelectSeq(df, LAMBDA row : TsLess(last_in_model, row.period))

\* a variant that takes the first period of the series instead of the latest
NextPeriodOfFirst(df) == AddDelta(MinPeriod(df), RelativeDelta(1))

\* next_period = latest_period + relativedelta(months=1)
NextPeriod(df) == AddDelta(MaxPeriod(df), RelativeDelta(1))

\* a variant that looks one month back instead of twelve
RefPeriodLastMonth(next_period) == AddDelta(next_period, NegDelta(RelativeDelta(1)))

\* ref_period = next_period - relativedelta(months=12)
RefPeriod(next_period) == AddDelta(next_period, NegDelta(RelativeDelta(12)))

\* the row append_forecast_row writes
ForecastRow(period, model_name, forecast) ==
    [period |-> StrfYm(period), model |-> model_name, forecast |-> forecast]

\* df = load_processed(): FileNotFoundError without the processed file
FcLoadProcessed(r) ==
    /\ pc[r] = "fc_load_processed"
    /\ IF processed.exists
       THEN \E df \in SortValues(processed.rows) :
                /\ SetLoc(r, [script |-> loc[r].script, df |-> df])
                /\ Goto(r, "fc_load_model")
       ELSE /\ Throw(r, "FileNotFoundError", "Processed file not found. Run backfill/ingest first.")
    /\ UNCHANGED <<provider, processed, raw, log, modelPkl, modelMeta, sarimaOut,
                   snaiveOut, table, clock, pre, hist>>

\* a key the metadata file does not have
Unset == <<>>

TrainFirst == "Model or metadata missing. Train the model first."

\* a variant that, without the model files, fits a model on the series and goes on
FcLoadModelFitting(r) ==
    /\ pc[r] = "fc_load_model"
    /\ LET meta == [model_name |-> MODEL_NAME,
                    trained_from |-> IsoDate(MinPeriod(loc[r].df)),
                    trained_through |-> IsoDate(MaxPeriod(loc[r].df)),
                    last_observed |-> IsoDate(MaxPeriod(loc[r].df)),
                    created_at |-> clock,
                    updated_at |-> Unset]
       IN  IF modelPkl.exists /\ modelMeta.exists /\ modelMeta.meta.last_observed = Unset
           THEN /\ Throw(r, "KeyError", "'last_observed'")
                /\ UNCHANGED <<modelPkl, modelMeta>>
           ELSE IF modelPkl.exists /\ modelMeta.exists
           THEN /\ SetLoc(r, [script |-> loc[r].script, df |-> loc[r].df,
                              fitted |-> modelPkl.endog, meta |-> modelMeta.meta,
                              last_in_model |-> ToDatetime(modelMeta.meta.last_observed),
                              new_obs |-> NewObs(loc[r].df,
                                                 ToDatetime(modelMeta.meta.last_observed))])
                /\ Goto(r, IF NewObs(loc[r].df, ToDatetime(modelMeta.meta.last_observed)) = <<>>
                           THEN "fc_log_noupdate" ELSE "fc_append")
                /\ UNCHANGED <<modelPkl, modelMeta>>
           ELSE IF loc[r].df = <<>>
           THEN /\ Throw(r, "FileNotFoundError", TrainFirst)
                /\ UNCHANGED <<modelPkl, modelMeta>>
           ELSE /\ modelPkl' = [exists |-> TRUE, endog |-> loc[r].df]
                /\ modelMeta' = [exists |-> TRUE, meta |-> meta]
                /\ SetLoc(r, [script |-> loc[r].script, df |-> loc[r].df,
                              fitted |-> loc[r].df, meta |-> meta,
                              last_in_model |-> MaxPeriod(loc[r].df), new_obs |-> <<>>])
                /\ Goto(r, "fc_log_noupdate")
    /\ UNCHANGED <<provider, processed, raw, log, sarimaOut,
                   snaiveOut, table, clock, pre, hist>>

\* fitted, meta = load_model(): FileNotFoundError without the pickle or the
\* metadata; then last_in_model = pd.to_datetime(meta["last_observed"]), a
\* KeyError when the metadata has no such key, and new_obs
FcLoadModel(r) ==
    /\ pc[r] = "fc_load_model"
    /\ IF modelPkl.exists /\ modelMeta.exists /\ modelMeta.meta.last_observed = Unset
       THEN Throw(r, "KeyError", "'last_observed'")
       ELSE IF modelPkl.exists /\ modelMeta.exists
       THEN LET last_in_model == ToDatetime(modelMeta.meta.last_observed)
                new_obs == NewObs(loc[r].df, last_in_model)
            IN  /\ SetLoc(r, [script |-> loc[r].script, df |-> loc[r].df,
                              fitted |-> modelPkl.endog, meta |-> modelMeta.meta,
                              last_in_model |-> last_in_model, new_obs |-> new_obs])
                /\ Goto(r, IF new_obs = <<>> THEN "fc_log_noupdate" ELSE "fc_append")
       ELSE /\ Throw(r, "FileNotFoundError", TrainFirst)
    /\ UNCHANGED <<provider, processed, raw, log, modelPkl, modelMeta, sarimaOut,
                   snaiveOut, table, clock, pre, hist>>

\* a variant that stamps the metadata file before it logs that nothing is new
FcLogNoUpdateTouching(r) ==
    /\ pc[r] = "fc_log_noupdate"
    /\ modelMeta' = [modelMeta EXCEPT !.meta.updated_at = <<clock>>]
    /\ log' = LogEvent(loc[r].script,
                       Status("No new obs available", <<StrfYm(loc[r].last_in_model)>>))
    /\ Finish(r, "no_update")
    /\ UNCHANGED <<provider, processed, raw, modelPkl, sarimaOut,
                   snaiveOut, table, clock, pre, hist>>

\* if new_obs.empty: log_event(script, "No new obs available. ..."); return
FcLogNoUpdate(r) ==
    /\ pc[r] = "fc_log_noupdate"
    /\ log' = LogEvent(loc[r].script,
                       Status("No new obs available", <<StrfYm(loc[r].last_in_model)>>))
    /\ Finish(r, "no_update")
    /\ UNCHANGED <<provider, processed, raw, modelPkl, modelMeta, sarimaOut,
                   snaiveOut, table, clock, pre, hist>>

\* a variant that takes the first period of the series
LastObservedFirst(df) == IsoDate(MinPeriod(df))

\* str(df["period"].max().date())
LastObserved(df) == IsoDate(MaxPeriod(df))

\* fitted = fitted.append(series_to_append, refit=False);
\* meta["last_observed"] = str(df["period"].max().date()); meta["updated_at"] = now
FcAppend(r) ==
    /\ pc[r] = "fc_append"
    /\ SetLoc(r, [loc[r] EXCEPT
                    !.fitted = AppendObs(@, loc[r].new_obs),
                    !.meta = [@ EXCEPT !.last_observed = LastObserved(loc[r].df),
                                       !.updated_at = <<clock>>]])
    /\ Goto(r, "fc_dump_pkl")
    /\ UNCHANGED <<provider, processed, raw, log, modelPkl, modelMeta, sarimaOut,
                   snaiveOut, table, clock, pre, hist>>

\* save_model, first half: joblib.dump(fitted, MODEL_PKL)
FcDumpPkl(r) ==
    /\ pc[r] = "fc_dump_pkl"
    /\ modelPkl' = [exists |-> TRUE, endog |-> loc[r].fitted]
    /\ Goto(r, "fc_dump_meta")
    /\ UNCHANGED <<provider, processed, raw, log, modelMeta, sarimaOut,
                   snaiveOut, table, clock, loc, pre, hist>>

\* a variant that refuses to write when the stored absorption point is no longer
\* the one the run has read
FcDumpMetaGuarded(r) ==
    /\ pc[r] = "fc_dump_meta"
    /\ IF modelMeta.meta.last_observed = IsoDate(loc[r].last_in_model)
       THEN /\ modelMeta' = [exists |-> TRUE, meta |-> loc[r].meta]
            /\ Goto(r, "fc_log_update")
            /\ UNCHANGED loc
       ELSE /\ Throw(r, "RuntimeError", "model state changed")
            /\ UNCHANGED modelMeta
    /\ UNCHANGED <<provider, processed, raw, log, modelPkl, sarimaOut,
                   snaiveOut, table, clock, pre, hist>>

\* save_model, second half: json.dump(meta, f)
FcDumpMeta(r) ==
    /\ pc[r] = "fc_dump_meta"
    /\ modelMeta' = [exists |-> TRUE, meta |-> loc[r].meta]
    /\ Goto(r, "fc_log_update")
    /\ UNCHANGED <<provider, processed, raw, log, modelPkl, sarimaOut,
                   snaiveOut, table, clock, loc, pre, hist>>

\* log_event(script, "Model state for ... updated with ... new obs through ...")
FcLogUpdate(r) ==
    /\ pc[r] = "fc_log_update"
    /\ log' = LogEvent(loc[r].script,
                       Status("Model state updated",
                              <<Len(loc[r].new_obs), loc[r].meta.last_observed>>))
    /\ Goto(r, "fc_sarima")
    /\ UNCHANGED <<provider, processed, raw, modelPkl, modelMeta, sarimaOut,
                   snaiveOut, table, clock, loc, pre, hist>>

\* a variant that forecasts the month after each observation it has absorbed
FcSarimaPerObservation(r) ==
    /\ pc[r] = "fc_sarima"
    /\ sarimaOut' = sarimaOut \o
          [i \in 1..Len(loc[r].new_obs) |->
              ForecastRow(AddDelta(loc[r].new_obs[i].period, RelativeDelta(1)), MODEL_NAME,
                          Forecast(loc[r].fitted))]
    /\ Goto(r, "fc_snaive")
    /\ UNCHANGED <<provider, processed, raw, log, modelPkl, modelMeta,
                   snaiveOut, table, clock, loc, pre, hist>>

\* next_period; sarima_val = fitted.forecast(steps=1); append_forecast_row(SARIMA_OUT, ...)
FcSarima(r) ==
    /\ pc[r] = "fc_sarima"
    /\ sarimaOut' = Append(sarimaOut,
                           ForecastRow(NextPeriod(loc[r].df), MODEL_NAME, Forecast(loc[r].fitted)))
    /\ Goto(r, "fc_snaive")
    /\ UNCHANGED <<provider, processed, raw, log, modelPkl, modelMeta,
                   snaiveOut, table, clock, loc, pre, hist>>

\* the seasonal naive row: the sales at ref_period when the index holds it, else
\* NaN.  df_idx.loc[ref_period, "sales"] is a Series when several rows carry the
\* period, and float() of it raises TypeError
FcSnaive(r) ==
    /\ pc[r] = "fc_snaive"
    /\ LET next_period == NextPeriod(loc[r].df)
           ref_period == RefPeriod(next_period)
           at_ref == SelectSeq(loc[r].df, LAMBDA row : row.period = ref_period)
       IN  IF Len(at_ref) > 1
           THEN /\ Throw(r, "TypeError", "cannot convert the series to float")
                /\ UNCHANGED snaiveOut
           ELSE /\ snaiveOut' = Append(snaiveOut,
                                       ForecastRow(next_period, "seasonal_naive",
                                                   IF at_ref # <<>> THEN at_ref[1].sales ELSE NaN))
                /\ SetLoc(r, [script |-> loc[r].script,
                              final |-> IF at_ref # <<>>
                                        THEN Status("Forecasts written", <<StrfYm(next_period)>>)
                                        ELSE Status("Forecast written, seasonal naive missing",
                                                    <<StrfYm(next_period), StrfYm(ref_period)>>)])
                /\ Goto(r, "fc_log_final")
    /\ UNCHANGED <<provider, processed, raw, log, modelPkl, modelMeta, sarimaOut,
                   table, clock, pre, hist>>

\* log_event(script, "Forecasts written for ...") in either branch
FcLogFinal(r) ==
    /\ pc[r] = "fc_log_final"
    /\ log' = LogEvent(loc[r].script, loc[r].final)
    /\ Finish(r, "success")
    /\ UNCHANGED <<provider, processed, raw, modelPkl, modelMeta, sarimaOut,
                   snaiveOut, table, clock, pre, hist>>

----------------------------------------------------------------------------
(* The pipeline: scripts invoked one at a time *)

\* the files before the first invocation
InitFresh ==
    /\ processed = NoFile
    /\ raw = {}
    /\ modelPkl = NoFile
    /\ modelMeta = NoFile

\* the metadata train_model.py writes for the series df
TrainedMeta(df) ==
    [model_name |-> MODEL_NAME,
     trained_from |-> IsoDate(MinPeriod(df)),
     trained_through |-> IsoDate(MaxPeriod(df)),
     last_observed |-> IsoDate(MaxPeriod(df)),
     created_at |-> 0,
     updated_at |-> <<>>]

\* the files after an earlier backfill and training, both run to the end at time 0
\* on what the provider serves
InitTrained ==
    LET data == Fetch(BackfillStart, BackfillEnd)
    IN  \E df \in SortValues(TransformRows(data)) :
           /\ processed = [exists |-> TRUE, rows |-> df]
           /\ raw = {[path |-> [dir |-> "backfill", name |-> <<0>>], data |-> data]}
           /\ modelPkl = [exists |-> TRUE, endog |-> df]
           /\ modelMeta = [exists |-> TRUE, meta |-> TrainedMeta(df)]

\* the files after an earlier backfill and training at time 0 on all but the
\* provider's latest month, and a monthly ingest of that month since then
InitIngested ==
    LET earlier == SubSeq(provider, 1, Len(provider) - 1)
        latest  == <<provider[Len(provider)]>>
    IN  /\ Len(provider) > 1
        /\ \E df \in SortValues(TransformRows(earlier)) :
             \E df_updated \in ApplyBatch(df, Transform(latest)) :
               /\ processed = [exists |-> TRUE, rows |-> df_updated]
               /\ raw = {[path |-> [dir |-> "backfill", name |-> <<0>>], data |-> earlier],
                         [path |-> [dir |-> "monthly", name |-> latest[1].period],
                          data |-> latest]}
               /\ modelPkl = [exists |-> TRUE, endog |-> df]
               /\ modelMeta = [exists |-> TRUE, meta |-> TrainedMeta(df)]

Init ==
    /\ provider \in InitialProviders
    /\ InitFresh \/ InitTrained \/ InitIngested
    /\ log = <<>>
    /\ sarimaOut = <<>>
    /\ snaiveOut = <<>>
    /\ table = {}
    /\ clock = 0
    /\ pc = [r \in Procs |-> Idle]
    /\ loc = [r \in Procs |-> NoLoc]
    /\ pre = [r \in Procs |-> NoPre]
    /\ hist = [fcSettled |-> FALSE, published |-> 0]

Backfill(r) == BfFetch(r) \/ BfSaveRaw(r) \/ BfTransform(r) \/ BfLog(r)

MonthlyIngest(r) ==
    \/ MiLoad(r) \/ MiFetch(r) \/ MiLogNoUpdate(r)
    \/ MiSaveRaw(r) \/ MiWrite(r) \/ MiLogUpdated(r)

Train(r) == TrLoad(r) \/ TrFit(r) \/ TrMeta(r) \/ TrLog(r)

Forecaster(r) ==
    \/ FcLoadProcessed(r) \/ FcLoadModel(r) \/ FcLogNoUpdate(r) \/ FcAppend(r)
    \/ FcDumpPkl(r) \/ FcDumpMeta(r) \/ FcLogUpdate(r) \/ FcSarima(r)
    \/ FcSnaive(r) \/ FcLogFinal(r)

\* the runtime path: the two ingest modes and the forecaster
Next ==
    \/ Publish
    \/ \E r \in Procs :
          \/ \E script \in RuntimeScripts : Start(r, script)
          \/ Backfill(r)
          \/ MonthlyIngest(r)
          \/ Forecaster(r)
          \/ Raise(r)
          \/ Except(r)
          \/ Exit(r)

Spec == Init /\ [][Next]_vars

\* the runtime path together with the offline training script
NextTrain ==
    \/ Next
    \/ \E r \in Procs : Start(r, "train_model.py") \/ Train(r)

SpecTrain == Init /\ [][NextTrain]_vars

----------------------------------------------------------------------------
(* The two ingest scripts against a provider whose payload may be malformed *)

\* payloads whose records lack a key, a payload without records, and a
\* well-formed history for comparison
IngestProviders ==
    {<<>>,
     <<[period |-> <<2024, 12>>, sales |-> Absent]>>,
     <<[period |-> NoPeriod, sales |-> [kind |-> "num", v |-> 5]]>>,
     History(Ts(2024, 12), HistShort + 1)}

\* no processed file yet, or the one a backfill wrote from the history up to
\* November 2024
InitIngest ==
    /\ provider \in IngestProviders
    /\ \/ processed = NoFile /\ raw = {}
       \/ LET data == History(Ts(2024, 11), HistShort)
          IN  /\ processed \in {[exists |-> TRUE, rows |-> df] :
                                   df \in SortValues(TransformRows(data))}
              /\ raw = {[path |-> [dir |-> "backfill", name |-> <<0>>], data |-> data]}
    /\ modelPkl = NoFile
    /\ modelMeta = NoFile
    /\ log = <<>>
    /\ sarimaOut = <<>>
    /\ snaiveOut = <<>>
    /\ table = {}
    /\ clock = 0
    /\ pc = [r \in Procs |-> Idle]
    /\ loc = [r \in Procs |-> NoLoc]
    /\ pre = [r \in Procs |-> NoPre]
    /\ hist = [fcSettled |-> FALSE, published |-> 0]

\* a provider that serves well-formed records publishes a further one
PublishWellFormed == HasColumns(provider) /\ Publish

NextIngest ==
    \/ PublishWellFormed
    \/ \E r \in Procs :
        \/ \E script \in {"backfill_historical.py", "monthly_data_ingest.py"} : Start(r, script)
        \/ Backfill(r)
        \/ MonthlyIngest(r)
        \/ Raise(r)
        \/ Except(r)
        \/ Exit(r)

SpecIngest == InitIngest /\ [][NextIngest]_vars

----------------------------------------------------------------------------
(* The forecaster against the files it may be given *)

\* the series of a processed file with rows
GivenSeries == SortValues(TransformRows(History(Ts(2024, 12), HistShort + 1)))

\* the metadata of a model trained on the series, with the keys of the
\* absorption point set or not
GivenMeta(df) ==
    {[TrainedMeta(df) EXCEPT !.last_observed = lo, !.trained_through = tt] :
        lo \in {Unset, TrainedMeta(df).last_observed},
        tt \in {Unset, TrainedMeta(df).trained_through}}

\* months by which the model lags the series
MaxLag == 2

\* the processed file: absent, without rows, or with the series; the model
\* trained on all but the last months of the series: its two files, each there
\* or not
InitForecaster ==
    /\ provider = <<>>
    /\ raw = {}
    /\ \E df \in GivenSeries, k \in 1..MaxLag :
          /\ processed \in {NoFile, [exists |-> TRUE, rows |-> <<>>],
                             [exists |-> TRUE, rows |-> df]}
          /\ modelPkl \in {NoFile, [exists |-> TRUE, endog |-> SubSeq(df, 1, Len(df) - k)]}
          /\ modelMeta \in {NoFile} \cup
                {[exists |-> TRUE, meta |-> m] : m \in GivenMeta(SubSeq(df, 1, Len(df) - k))}
    /\ log = <<>>
    /\ sarimaOut = <<>>
    /\ snaiveOut = <<>>
    /\ table = {}
    /\ clock = 0
    /\ pc = [r \in Procs |-> Idle]
    /\ loc = [r \in Procs |-> NoLoc]
    /\ pre = [r \in Procs |-> NoPre]
    /\ hist = [fcSettled |-> FALSE, published |-> 0]

NextForecaster ==
    \E r \in Procs :
        \/ Start(r, "monthly_forecast.py")
        \/ Forecaster(r)
        \/ Raise(r)
        \/ Except(r)
        \/ Exit(r)

SpecForecaster == InitForecaster /\ [][NextForecaster]_vars

----------------------------------------------------------------------------
(* Invocations that overlap: nothing in the scripts takes a lock, so two cron *)
(* or manual invocations run statement by statement against the same files.  *)
(* Each file read and each file write is one step.                           *)

Overlapping == {1, 2}

\* a script is invoked while another invocation may still be running
StartOverlapping(r, script) ==
    /\ pc[r] = Idle
    /\ clock < MaxRuns
    /\ clock' = clock + 1
    /\ Goto(r, FirstPc(script))
    /\ SetLoc(r, [script |-> script])
    /\ pre' = [pre EXCEPT ![r] = Snapshot]
    /\ UNCHANGED <<provider, processed, raw, log, modelPkl, modelMeta, sarimaOut,
                   snaiveOut, table, hist>>

\* load_model up to joblib.load(MODEL_PKL): the existence test of both files
\* and the read of the pickle
FcLoadPkl(r) ==
    /\ pc[r] = "fc_load_model"
    /\ IF modelPkl.exists /\ modelMeta.exists
       THEN /\ SetLoc(r, [script |-> loc[r].script, df |-> loc[r].df,
                          fitted |-> modelPkl.endog])
            /\ Goto(r, "fc_load_meta")
       ELSE Throw(r, "FileNotFoundError", TrainFirst)
    /\ UNCHANGED <<provider, processed, raw, log, modelPkl, modelMeta, sarimaOut,
                   snaiveOut, table, clock, pre, hist>>

\* the rest of load_model, json.load of the metadata file, and then
\* last_in_model and new_obs
FcLoadMeta(r) ==
    /\ pc[r] = "fc_load_meta"
    /\ IF modelMeta.meta.last_observed = Unset
       THEN Throw(r, "KeyError", "'last_observed'")
       ELSE LET last_in_model == ToDatetime(modelMeta.meta.last_observed)
                new_obs == NewObs(loc[r].df, last_in_model)
            IN  /\ SetLoc(r, [script |-> loc[r].script, df |-> loc[r].df,
                              fitted |-> loc[r].fitted, meta |-> modelMeta.meta,
                              last_in_model |-> last_in_model, new_obs |-> new_obs])
                /\ Goto(r, IF new_obs = <<>> THEN "fc_log_noupdate" ELSE "fc_append")
    /\ UNCHANGED <<provider, processed, raw, log, modelPkl, modelMeta, sarimaOut,
                   snaiveOut, table, clock, pre, hist>>

\* the files after backfill and training on all but the last month of the
\* series: one observation waits to be absorbed
InitOverlapForecaster ==
    /\ provider = <<>>
    /\ raw = {}
    /\ \E df \in GivenSeries :
          /\ processed = [exists |-> TRUE, rows |-> df]
          /\ modelPkl = [exists |-> TRUE, endog |-> SubSeq(df, 1, Len(df) - 1)]
          /\ modelMeta = [exists |-> TRUE, meta |-> TrainedMeta(SubSeq(df, 1, Len(df) - 1))]
    /\ log = <<>>
    /\ sarimaOut = <<>>
    /\ snaiveOut = <<>>
    /\ table = {}
    /\ clock = 0
    /\ pc = [r \in Overlapping |-> Idle]
    /\ loc = [r \in Overlapping |-> NoLoc]
    /\ pre = [r \in Overlapping |-> NoPre]
    /\ hist = [fcSettled |-> FALSE, published |-> 0]

\* each of the two processes runs monthly_forecast.py once
NextOverlapForecaster ==
    \E r \in Overlapping :
        \/ StartOverlapping(r, "monthly_forecast.py")
        \/ FcLoadProcessed(r) \/ FcLoadPkl(r) \/ FcLoadMeta(r)
        \/ FcLogNoUpdate(r) \/ FcAppend(r) \/ FcDumpPkl(r) \/ FcDumpMeta(r)
        \/ FcLogUpdate(r) \/ FcSarima(r) \/ FcSnaive(r) \/ FcLogFinal(r)

SpecOverlapForecaster == InitOverlapForecaster /\ [][NextOverlapForecaster]_vars

\* the processed file an earlier backfill wrote from the history up to
\* November 2024
StoredSeries == SortValues(TransformRows(History(Ts(2024, 11), HistShort)))

\* since then the provider has published one or two further months
InitOverlapIngest ==
    /\ provider \in {History(Ts(2024, 12), HistShort + 1), History(Ts(2025, 1), HistShort + 2)}
    /\ processed \in {[exists |-> TRUE, rows |-> df] : df \in StoredSeries}
    /\ raw = {[path |-> [dir |-> "backfill", name |-> <<0>>],
               data |-> History(Ts(2024, 11), HistShort)]}
    /\ modelPkl = NoFile
    /\ modelMeta = NoFile
    /\ log = <<>>
    /\ sarimaOut = <<>>
    /\ snaiveOut = <<>>
    /\ table = {}
    /\ clock = 0
    /\ pc = [r \in Overlapping |-> Idle]
    /\ loc = [r \in Overlapping |-> NoLoc]
    /\ pre = [r \in Overlapping |-> NoPre]
    /\ hist = [fcSettled |-> FALSE, published |-> 0]

\* each of the two processes runs one of the ingest scripts once
NextOverlapIngest ==
    \E r \in Overlapping :
        \/ \E script \in {"backfill_historical.py", "monthly_data_ingest.py"} :
              StartOverlapping(r, script)
        \/ Backfill(r)
        \/ MonthlyIngest(r)

SpecOverlapIngest == InitOverlapIngest /\ [][NextOverlapIngest]_vars

----------------------------------------------------------------------------
(* The forecaster triggered again and again on a store that does not change *)

\* interruptions of a run in one behaviour
MaxInterrupts == 2

\* the scheduler invokes the script, as often as it likes; the clock stops
\* being told apart once it has counted MaxRuns invocations
Trigger(r, script) ==
    /\ AllIdle
    /\ clock' = IF clock < MaxRuns THEN clock + 1 ELSE clock
    /\ Goto(r, FirstPc(script))
    /\ SetLoc(r, [script |-> script])
    /\ pre' = [pre EXCEPT ![r] = Snapshot]
    /\ UNCHANGED <<provider, processed, raw, log, modelPkl, modelMeta, sarimaOut,
                   snaiveOut, table, hist>>

\* the statement at the current position raises, or the process is killed there
\* and the handler still runs: at most MaxInterrupts times
Interrupt(r) ==
    /\ pc[r] \in TryPcs
    /\ hist.interrupted < MaxInterrupts
    /\ hist' = [hist EXCEPT !.interrupted = @ + 1]
    /\ Throw(r, "Exception", "")
    /\ UNCHANGED <<provider, processed, raw, log, modelPkl, modelMeta, sarimaOut,
                   snaiveOut, table, clock, pre>>

\* a model trained on all but the last month of the stored series
InitRetry ==
    /\ provider = <<>>
    /\ raw = {}
    /\ \E df \in GivenSeries :
          /\ processed = [exists |-> TRUE, rows |-> df]
          /\ modelPkl = [exists |-> TRUE, endog |-> SubSeq(df, 1, Len(df) - 1)]
          /\ modelMeta = [exists |-> TRUE, meta |-> TrainedMeta(SubSeq(df, 1, Len(df) - 1))]
    /\ log = <<>>
    /\ sarimaOut = <<>>
    /\ snaiveOut = <<>>
    /\ table = {}
    /\ clock = 0
    /\ pc = [r \in Procs |-> Idle]
    /\ loc = [r \in Procs |-> NoLoc]
    /\ pre = [r \in Procs |-> NoPre]
    /\ hist = [fcSettled |-> FALSE, published |-> 0, interrupted |-> 0]

NextRetry ==
    \E r \in Procs :
        \/ Trigger(r, "monthly_forecast.py")
        \/ Forecaster(r)
        \/ Interrupt(r)
        \/ Except(r)
        \/ Exit(r)

\* runs keep being triggered, and a run that is not interrupted goes on to its end
SpecRetry ==
    /\ InitRetry /\ [][NextRetry]_vars
    /\ \A r \in Procs :
          /\ WF_vars(Trigger(r, "monthly_forecast.py"))
          /\ WF_vars(Forecaster(r))
          /\ WF_vars(Except(r))
          /\ WF_vars(Exit(r))

----------------------------------------------------------------------------
(* supabase_io.py: the electricity_sales table, keyed by period *)

\* pd.to_datetime(df["period"]).dt.date
ToDate(t) == [year |-> t.year, month |-> t.month, day |-> 1]

\* float(row["sales"]) if pd.notnull(row["sales"]) else None
SqlValue(x) == IF x.nan THEN [null |-> TRUE, v |-> 0] ELSE [null |-> FALSE, v |-> x.v]

\* INSERT ... ON CONFLICT (period) DO UPDATE SET sales = EXCLUDED.sales
UpsertRow(tbl, row) ==
    {x \in tbl : x.period # ToDate(row.period)}
        \cup {[period |-> ToDate(row.period), sales |-> SqlValue(row.sales)]}

RECURSIVE UpsertRows(_, _)
\* for _, row in df.iterrows(): conn.execute(...)
UpsertRows(tbl, df) ==
    IF df = <<>> THEN tbl ELSE UpsertRows(UpsertRow(tbl, Head(df)), Tail(df))

\* upsert_electricity_sales(df)
UpsertElectricitySales(tbl, df) == IF df = <<>> THEN tbl ELSE UpsertRows(tbl, df)

----------------------------------------------------------------------------
(* Applying one normalized batch to a store, repeatedly *)

\* applications of the batch to each store
MaxApply == 2
\* rows of a store and of a batch
MaxRows == 2

ApplyPeriods == {Ts(2024, 11), Ts(2024, 12)}

ApplyValues == {Num(1), Num(2)}

ApplyRows == [period : ApplyPeriods, sales : ApplyValues]

\* the row sequences of at most n rows
RowSeqs(n) == UNION {[1..k -> ApplyRows] : k \in 0..n}

InitApply ==
    /\ \E s0 \in {s \in RowSeqs(MaxRows) : s # <<>> /\ IsSortedRows(s)},
          batch \in RowSeqs(MaxRows) \ {<<>>} :
          /\ processed = [exists |-> TRUE, rows |-> s0]
          /\ table = UpsertElectricitySales({}, s0)
          /\ loc = [r \in Procs |-> [script |-> "apply", batch |-> batch, n |-> 0]]
    /\ pc = [r \in Procs |-> "apply"]
    /\ pre = [r \in Procs |-> NoPre]
    /\ provider = <<>>
    /\ raw = {}
    /\ log = <<>>
    /\ modelPkl = NoFile
    /\ modelMeta = NoFile
    /\ sarimaOut = <<>>
    /\ snaiveOut = <<>>
    /\ clock = 0
    /\ hist = [fcSettled |-> FALSE, published |-> 0]

\* the batch goes into the processed file as monthly_data_ingest.py writes it,
\* and into the table through upsert_electricity_sales; what the first
\* application left is kept for comparison
Apply(r) ==
    /\ pc[r] = "apply"
    /\ loc[r].n < MaxApply
    /\ table' = UpsertElectricitySales(table, loc[r].batch)
    /\ \E df_updated \in ApplyBatch(processed.rows, loc[r].batch) :
          /\ processed' = [exists |-> TRUE, rows |-> df_updated]
          /\ pre' = IF loc[r].n = 0
                    THEN [pre EXCEPT ![r] = [file |-> df_updated, table |-> table']]
                    ELSE pre
    /\ SetLoc(r, [loc[r] EXCEPT !.n = @ + 1])
    /\ UNCHANGED <<provider, raw, log, modelPkl, modelMeta, sarimaOut, snaiveOut,
                   clock, pc, hist>>

NextApply == \E r \in Procs : Apply(r)

SpecApply == InitApply /\ [][NextApply]_vars

----------------------------------------------------------------------------
(* Properties *)

FORECASTER == "monthly_forecast.py"

INGESTORS == {"backfill_historical.py", "monthly_data_ingest.py"}

\* an invocation of the script has just ended with the outcome
Ended(r, script, outcome) ==
    pc[r] = "done" /\ loc[r].script = script /\ loc[r].outcome = outcome

\* ModelState.last_observed of a metadata file, as a month
Watermark(file) == ToDatetime(file.meta.last_observed)

\* the month as a count of months, and the same for its text 'YYYY-MM'
MonthNumber(t) == t.year * 12 + t.month - 1

MonthNumberOfText(ym) == ym[1] * 12 + ym[2] - 1

NoDuplicatePeriods(rows) ==
    \A i, j \in 1..Len(rows) : rows[i].period = rows[j].period => i = j

\* how often the row occurs in the sequence
Count(rows, row) == Cardinality({i \in 1..Len(rows) : rows[i] = row})

NoDuplicateForecasts(rows) ==
    \A i, j \in 1..Len(rows) :
        (rows[i].period = rows[j].period /\ rows[i].model = rows[j].model) => i = j

TableUpsertIdempotent ==
    \A r \in Procs :
        (pc[r] = "apply" /\ loc[r].n >= 2) => table = pre[r].table

TableUpsertTwice ==
    \E r \in Procs :
        /\ pc[r] = "apply" /\ loc[r].n >= 2
        /\ \E x \in table : \E i \in 1..Len(loc[r].batch) :
              /\ x.period = ToDate(loc[r].batch[i].period)
              /\ \E y \in UpsertElectricitySales({}, processed.rows) :
                    y.period = x.period /\ y.sales # x.sales

\* C2: in every reachable state the observation store holds at most one
\* observation per period.
C2_OneObservationPerPeriod ==
    processed.exists => NoDuplicatePeriods(processed.rows)

\* C3: monotonic watermark.  When a Forecaster run ends in success,
\* last_observed is at least what it was before the run and equals the maximum
\* period of the observation series; and no step of a Forecaster run lowers
\* last_observed.
C3_MonotonicWatermark ==
    /\ [](\A r \in Procs :
            Ended(r, FORECASTER, "success") =>
                /\ modelMeta.exists
                /\ TsLeq(Watermark(pre[r].modelMeta), Watermark(modelMeta))
                /\ Watermark(modelMeta) = MaxPeriod(processed.rows))
    /\ [][(modelMeta.exists /\ modelMeta'.exists) =>
             TsLeq(Watermark(modelMeta), Watermark(modelMeta'))]_vars

\* a successful run that moved the watermark forward
C3_Witness ==
    \E r \in Procs :
        /\ Ended(r, FORECASTER, "success")
        /\ TsLess(Watermark(pre[r].modelMeta), Watermark(modelMeta))

\* C4: whenever no run is in progress, also after a run that stopped between
\* writing the model blob and writing its metadata, the blob has absorbed
\* exactly the observations with period up to last_observed: the periods it
\* holds are the stored periods up to last_observed, and it holds no
\* observation more often than the store does.
C4_BlobConsistent ==
    (AllIdle /\ modelPkl.exists /\ modelMeta.exists /\ processed.exists) =>
        /\ Periods(modelPkl.endog)
               = {p \in Periods(processed.rows) : TsLeq(p, Watermark(modelMeta))}
        /\ \A i \in 1..Len(modelPkl.endog) :
               Count(modelPkl.endog, modelPkl.endog[i]) <= Count(processed.rows, modelPkl.endog[i])

\* C5: no-op safety.  A Forecaster run that follows a completed Forecaster run
\* (success or no_update) with no observation written in between never reaches
\* the extend, persist and forecast steps: it ends in no_update, or in error when
\* a load or the log write raises, and never in success.  Throughout it the
\* model blob, the metadata with updated_at, and both forecast files stay as they
\* were before it.
C5_NoOpSafety ==
    \A r \in Procs :
        (loc[r].script = FORECASTER /\ hist.fcSettled) =>
            /\ pc[r] \in {"fc_load_processed", "fc_load_model", "fc_log_noupdate",
                          "except", "done"}
            /\ pc[r] = "done" => loc[r].outcome \in {"no_update", "error"}
            /\ (pc[r] = "done" /\ loc[r].outcome = "error") =>
                  log[Len(log)].status.msg = "ERROR"
            /\ modelPkl = pre[r].modelPkl
            /\ modelMeta = pre[r].modelMeta
            /\ sarimaOut = pre[r].sarimaOut
            /\ snaiveOut = pre[r].snaiveOut

\* the second run, after a run that extended the model, ends in no_update
C5_Witness ==
    \E r \in Procs :
        /\ Ended(r, FORECASTER, "no_update")
        /\ hist.fcSettled
        /\ modelMeta.meta.updated_at # <<>>

\* C6: a Forecaster run that ends in error leaves the model blob and the
\* metadata as they were before the run.
C6_FailedRunLeavesModelState ==
    \A r \in Procs :
        Ended(r, FORECASTER, "error") =>
            modelPkl = pre[r].modelPkl /\ modelMeta = pre[r].modelMeta

\* C7: the forecast files hold at most one row per target period and model.
C7_OneForecastPerPeriodAndModel ==
    /\ NoDuplicateForecasts(sarimaOut \o snaiveOut)
    \* what keeps it so: no target lies more than a month past last_observed
    /\ \A i \in 1..Len(sarimaOut \o snaiveOut) :
          /\ modelMeta.exists
          /\ MonthNumberOfText((sarimaOut \o snaiveOut)[i].period)
                 <= MonthNumber(Watermark(modelMeta)) + 1

\* forecasts written by a run that followed a run stopped after the blob was
\* written: the blob holds an observation twice
C7_Witness ==
    /\ sarimaOut # <<>>
    /\ snaiveOut # <<>>
    /\ modelPkl.exists
    /\ \E i \in 1..Len(modelPkl.endog) : Count(modelPkl.endog, modelPkl.endog[i]) = 2

C9_ForecastTarget ==
    \A r \in Procs :
        Ended(r, FORECASTER, "success") =>
            \A row \in {sarimaOut[Len(sarimaOut)], snaiveOut[Len(snaiveOut)]} :
                /\ row.period[2] \in 1..12
                /\ MonthNumberOfText(row.period) = MonthNumber(MaxPeriod(processed.rows)) + 1

\* the series ends in December and the target is January of the next year
C9_Witness ==
    \E r \in Procs :
        /\ Ended(r, FORECASTER, "success")
        /\ MaxPeriod(processed.rows).month = 12
        /\ sarimaOut[Len(sarimaOut)].period = <<MaxPeriod(processed.rows).year + 1, 1>>

C10_ReferencePresent ==
    \E r \in Procs :
        /\ Ended(r, FORECASTER, "success")
        /\ ~snaiveOut[Len(snaiveOut)].forecast.nan

\* the rows of the processed file a Forecaster run finds beyond the absorption
\* point it finds, in one of the orders load_processed may give them
Pending(r) ==
    {NewObs(df, Watermark(pre[r].modelMeta)) : df \in SortValues(pre[r].processed.rows)}

MONTHLY == "monthly_data_ingest.py"

BACKFILL == "backfill_historical.py"

\* the month an incremental ingest run asks the provider for
NextMonth(r) == StrfYm(AddDelta(MaxPeriod(pre[r].processed.rows), RelativeDelta(1)))

\* C12: an incremental ingest run for which the provider holds no record of the
\* month after the store's latest period never reaches the archive and write
\* steps and its own statements raise nothing: it ends in no_update (in error
\* only when the environment makes a statement fail), with the processed file
\* and the raw archive as the run found them.
C12_NoRecordNoUpdate ==
    \A r \in Procs :
        (loc[r].script = MONTHLY /\ pre[r].processed.exists
           /\ Fetch(NextMonth(r), NextMonth(r)) = <<>>) =>
            /\ pc[r] \in {"mi_load", "mi_fetch", "mi_log_noupdate", "except", "done"}
            /\ pc[r] = "except" => loc[r].exc.type = "Exception"
            /\ pc[r] = "done" => loc[r].outcome \in {"no_update", "error"}
            /\ (pc[r] = "done" /\ loc[r].outcome = "no_update") =>
                  (Len(log) = 1 /\ log[1].status = Status("No data update", <<NextMonth(r)>>))
            /\ processed = pre[r].processed
            /\ raw = pre[r].raw

\* such a run has ended in no_update, the archive holding earlier snapshots
C12_Witness ==
    \E r \in Procs :
        /\ Ended(r, MONTHLY, "no_update")
        /\ Fetch(NextMonth(r), NextMonth(r)) = <<>>
        /\ raw # {}

\* the except clause has caught an exception raised by the provider fetch
FetchFailed(r) ==
    /\ pc[r] = "except"
    /\ loc[r].script \in INGESTORS
    /\ loc[r].exc.at \in {"bf_fetch", "mi_fetch"}

\* C13: when the provider fetch of an ingest run raises, in either mode, the
\* processed file and the archive are as the run found them, and the next step
\* of the run logs one ERROR row and leaves the script by re-raising (outcome
\* error) without touching the processed file.
C13_FetchFailure ==
    /\ [](\A r \in Procs :
            FetchFailed(r) => (processed = pre[r].processed /\ raw = pre[r].raw /\ log = <<>>))
    /\ [][\A r \in Procs :
            (FetchFailed(r) /\ pc'[r] # pc[r]) =>
                /\ pc'[r] = "done"
                /\ loc'[r].outcome = "error"
                /\ Len(log') = 1
                /\ log'[1].script = loc[r].script
                /\ OutcomeOf(log'[1]) = "error"
                /\ processed' = processed
                /\ raw' = raw]_vars

\* the fetch of an incremental run on an existing store has raised
C13_Witness ==
    \E r \in Procs : FetchFailed(r) /\ loc[r].script = MONTHLY /\ processed.exists

\* the fetch of a range run has raised
C13_WitnessBackfill ==
    \E r \in Procs : FetchFailed(r) /\ loc[r].script = BACKFILL

RunBackfillFirst == "No processed data found. Run backfill first."

\* C14: an incremental ingest run that finds no processed file never reaches the
\* fetch: the only exception its own statements raise is the RuntimeError that
\* tells the operator to run the backfill first, it ends in error with one
\* ERROR row, nothing is archived and there is still no processed file.
C14_EmptyLedgerFailsFast ==
    \A r \in Procs :
        (loc[r].script = MONTHLY /\ ~pre[r].processed.exists) =>
            /\ pc[r] \in {"mi_load", "except", "done"}
            /\ pc[r] = "except" =>
                  /\ loc[r].exc.at = "mi_load"
                  /\ loc[r].exc.type # "Exception" =>
                        (loc[r].exc.type = "RuntimeError" /\ loc[r].exc.msg = RunBackfillFirst)
            /\ pc[r] = "done" =>
                  /\ loc[r].outcome = "error"
                  /\ Len(log) = 1
                  /\ log[1].status.msg = "ERROR"
            /\ processed = NoFile
            /\ raw = pre[r].raw

\* the run has ended in error with the instruction in its log row
C14_Witness ==
    \E r \in Procs :
        /\ Ended(r, MONTHLY, "error")
        /\ ~processed.exists
        /\ log[1].status = Status("ERROR", <<RunBackfillFirst>>)

\* what the provider answers to the fetch of the ingest run
Payload(r) ==
    IF loc[r].script = BACKFILL
    THEN Fetch(BackfillStart, BackfillEnd)
    ELSE Fetch(NextMonth(r), NextMonth(r))

\* the archive holds the snapshot the run writes of that payload
Archived(r) ==
    \E f \in raw :
        /\ f.data = Payload(r)
        /\ f.path = IF loc[r].script = BACKFILL
                    THEN [dir |-> "backfill", name |-> <<clock>>]
                    ELSE [dir |-> "monthly", name |-> NextMonth(r)]

\* positions of an ingest run after its archive step
AfterArchive == {"bf_transform", "bf_log", "mi_write", "mi_log_updated"}

\* positions of an ingest run after its fetch, up to the end of the apply
AfterFetch == AfterArchive \cup {"bf_save_raw", "mi_save_raw"}

\* C15 as stated: an ingest run that stops at any point between the fetch and
\* the end of the apply leaves a raw snapshot of what was fetched.
C15_SnapshotAfterAnyCrash ==
    \A r \in Procs :
        (pc[r] = "except" /\ loc[r].script \in INGESTORS /\ loc[r].exc.at \in AfterFetch) =>
            Archived(r)

\* C15 amended: the raw snapshot is written before the processed file.  Whenever
\* an ingest run has changed the processed file, stands after its archive
\* step, has stopped after that step, or has ended in success, the archive
\* holds the snapshot of the fetched payload; a run that stops between the fetch
\* and the end of the archive step has not changed the processed file.
C15_ArchiveBeforeApply ==
    \A r \in Procs :
        loc[r].script \in INGESTORS =>
            /\ ( \/ processed # pre[r].processed
                 \/ pc[r] \in AfterArchive
                 \/ (pc[r] = "except" /\ loc[r].exc.at \in AfterArchive)
                 \/ (pc[r] = "done" /\ loc[r].outcome = "success") ) => Archived(r)
            /\ (pc[r] = "except" /\ loc[r].exc.at \in AfterFetch \ AfterArchive) =>
                  processed = pre[r].processed

\* an incremental run has stopped at the write of the processed file, after
\* the archive step: the snapshot is there
C15_Witness ==
    \E r \in Procs :
        /\ pc[r] = "except" /\ loc[r].script = MONTHLY /\ loc[r].exc.at = "mi_write"
        /\ Archived(r)

\* a range run has replaced the processed file by different rows
C15_WitnessBackfill ==
    \E r \in Procs :
        /\ loc[r].script = BACKFILL /\ pre[r].processed.exists
        /\ processed # pre[r].processed /\ Archived(r)

\* the payload lacks what normalization expects: no records, or records without
\* the period or without the value
Malformed(data) == data = <<>> \/ ~HasColumns(data)

\* C16: an ingest run whose payload is malformed ends in no_update with the
\* processed file as the run found it; it ends in error only when the
\* environment makes a statement fail, never through an exception of the
\* script's own normalization.
C16_MalformedPayloadNoUpdate ==
    \A r \in Procs :
        (pc[r] = "done" /\ loc[r].script \in INGESTORS
           /\ (loc[r].script = MONTHLY => pre[r].processed.exists)
           /\ Malformed(Payload(r))) =>
            /\ \/ loc[r].outcome = "no_update"
               \/ loc[r].outcome = "error" /\ log[Len(log)].status = Status("ERROR", <<"">>)
            /\ processed = pre[r].processed

\* What does hold: the processed file is as the run found it, the monthly
\* script ends in no_update on a payload without records, and
\* eia_client.transform_raw_to_df gives an empty frame for every such payload.
MalformedPayloadLeavesStore ==
    \A r \in Procs :
        (loc[r].script \in INGESTORS
           /\ (loc[r].script = MONTHLY => pre[r].processed.exists)
           /\ Malformed(Payload(r))) =>
            /\ processed = pre[r].processed
            /\ TransformRawToDf(Payload(r)) = {<<>>}
            /\ (pc[r] = "done" /\ loc[r].script = MONTHLY /\ Payload(r) = <<>>) =>
                  loc[r].outcome \in {"no_update", "error"}

\* the script's own KeyError on records that lack a key
MalformedPayloadRaises ==
    \E r \in Procs :
        /\ pc[r] = "except" /\ loc[r].script = MONTHLY
        /\ loc[r].exc.type = "KeyError"
        /\ Payload(r) # <<>>

\* C17: after an ingest run that ended in success every row of the processed
\* file has a numeric value: no row whose value was missing or no number in
\* the payload is stored.
C17_NoNullObservationStored ==
    \A r \in Procs :
        (pc[r] = "done" /\ loc[r].script \in INGESTORS /\ loc[r].outcome = "success") =>
            \A i \in 1..Len(processed.rows) : ~processed.rows[i].sales.nan

\* The table side: upsert_electricity_sales writes the row of a missing value
\* with sales NULL instead of leaving it out.
UpsertKeepsNullRow ==
    \A t \in ApplyPeriods :
        UpsertElectricitySales({}, <<[period |-> t, sales |-> NaN]>>)
            = {[period |-> ToDate(t), sales |-> SqlValue(NaN)]}

\* the Forecaster run found the processed file and both model files
FoundAll(r) ==
    /\ loc[r].script = FORECASTER
    /\ pre[r].processed.exists /\ pre[r].modelPkl.exists /\ pre[r].modelMeta.exists

\* the run ended in error through an exception of the script's own statements
\* (the environment's failures carry no message here)
OwnError(r) ==
    /\ pc[r] = "done" /\ loc[r].outcome = "error"
    /\ log[Len(log)].status # Status("ERROR", <<"">>)

AbsorptionPointAsCoded ==
    \A r \in Procs :
        FoundAll(r) =>
            /\ (pc[r] \in {"fc_log_noupdate", "fc_append"}) =>
                  /\ pre[r].modelMeta.meta.last_observed # Unset
                  /\ loc[r].last_in_model = ToDatetime(pre[r].modelMeta.meta.last_observed)
            /\ pre[r].modelMeta.meta.last_observed = Unset =>
                  /\ pc[r] \in {"fc_load_processed", "fc_load_model", "except", "done"}
                  /\ pc[r] = "done" => loc[r].outcome = "error"
                  /\ modelPkl = pre[r].modelPkl /\ modelMeta = pre[r].modelMeta
                  /\ sarimaOut = pre[r].sarimaOut /\ snaiveOut = pre[r].snaiveOut

\* the KeyError of meta["last_observed"] with trained_through set
AbsorptionPointKeyError ==
    \E r \in Procs :
        /\ FoundAll(r) /\ OwnError(r)
        /\ pre[r].modelMeta.meta.trained_through # Unset
        /\ log[Len(log)].status = Status("ERROR", <<"'last_observed'">>)

\* C19: a Forecaster run that finds the processed file but not both model files
\* never gets past load_model: the only exception its own statements raise is
\* the FileNotFoundError that tells the operator to train the model first, it
\* ends in error, and the model files and the forecast files stay as it found
\* them (no fit, no model state created, no forecast row).
C19_ModelAbsent ==
    \A r \in Procs :
        (loc[r].script = FORECASTER /\ pre[r].processed.exists
           /\ ~(pre[r].modelPkl.exists /\ pre[r].modelMeta.exists)) =>
            /\ pc[r] \in {"fc_load_processed", "fc_load_model", "except", "done"}
            /\ (pc[r] = "except" /\ loc[r].exc.type # "Exception") =>
                  (loc[r].exc.type = "FileNotFoundError" /\ loc[r].exc.msg = TrainFirst)
            /\ pc[r] = "done" =>
                  /\ loc[r].outcome = "error"
                  /\ Len(log) = 1
                  /\ log[1].status \in {Status("ERROR", <<TrainFirst>>), Status("ERROR", <<"">>)}
            /\ modelPkl = pre[r].modelPkl
            /\ modelMeta = pre[r].modelMeta
            /\ sarimaOut = pre[r].sarimaOut
            /\ snaiveOut = pre[r].snaiveOut

\* the blob is there and the metadata is not: the run has ended in error with
\* the instruction in its log row
C19_Witness ==
    \E r \in Procs :
        /\ Ended(r, FORECASTER, "error")
        /\ processed.exists /\ modelPkl.exists /\ ~modelMeta.exists
        /\ log[1].status = Status("ERROR", <<TrainFirst>>)

\* neither file is there
C19_WitnessNeither ==
    \E r \in Procs :
        /\ Ended(r, FORECASTER, "error")
        /\ processed.exists /\ ~modelPkl.exists /\ ~modelMeta.exists
        /\ log[1].status = Status("ERROR", <<TrainFirst>>)

EmptySeriesAsCoded ==
    \A r \in Procs :
        loc[r].script = FORECASTER =>
            /\ ~pre[r].processed.exists =>
                  /\ pc[r] \in {"fc_load_processed", "except", "done"}
                  /\ pc[r] = "done" => loc[r].outcome = "error"
            /\ (~pre[r].processed.exists \/ pre[r].processed.rows = <<>>) =>
                  /\ modelPkl = pre[r].modelPkl /\ modelMeta = pre[r].modelMeta
                  /\ sarimaOut = pre[r].sarimaOut /\ snaiveOut = pre[r].snaiveOut

\* the run on a series without rows has logged that the model is up to date
EmptySeriesNoUpdate ==
    \E r \in Procs :
        /\ Ended(r, FORECASTER, "no_update")
        /\ processed.exists /\ processed.rows = <<>>

\* the run holds an absorption point it has read and observations to absorb,
\* and has not yet written its forecast
Absorbing(r) ==
    pc[r] \in {"fc_append", "fc_dump_pkl", "fc_dump_meta", "fc_log_update", "fc_sarima"}

\* the rows of a forecast file for a target period
RowsFor(rows, target) == SelectSeq(rows, LAMBDA row : row.period = StrfYm(target))

\* C21: two Forecaster invocations at the same time are neither serialized nor
\* rejected.  No run is ever refused; two runs that are both between the read
\* of the absorption point and their forecast hold the same absorption point
\* and the same new observations; and when both have ended in success the
\* forecast files hold two rows each for the one target, the metadata holds the
\* latest period, and the pickle holds the new observations once (one of the
\* two equal updates is lost) or twice (absorbed twice).
C21_ForecasterRace ==
    /\ \A r \in Overlapping : pc[r] # "except"
    /\ \A r1, r2 \in Overlapping :
          (r1 # r2 /\ Absorbing(r1) /\ Absorbing(r2)) =>
              /\ loc[r1].last_in_model = loc[r2].last_in_model
              /\ loc[r1].new_obs = loc[r2].new_obs
              /\ loc[r1].new_obs # <<>>
    /\ (\A r \in Overlapping : pc[r] = "done" /\ loc[r].outcome = "success") =>
          LET df == processed.rows
              new == <<df[Len(df)]>>
              old == SubSeq(df, 1, Len(df) - 1)
          IN  /\ Len(RowsFor(sarimaOut, NextPeriod(df))) = 2
              /\ Len(RowsFor(snaiveOut, NextPeriod(df))) = 2
              /\ modelMeta.meta.last_observed = LastObserved(df)
              /\ modelPkl.endog \in {AppendObs(old, new), AppendObs(AppendObs(old, new), new)}

\* both runs have read the same absorption point and both have written: the
\* observation is in the model twice and forecast twice
C21_Witness ==
    /\ \A r \in Overlapping : pc[r] = "done" /\ loc[r].outcome = "success"
    /\ LET df == processed.rows
       IN  /\ modelPkl.endog = df \o <<df[Len(df)]>>
           /\ Len(RowsFor(sarimaOut, NextPeriod(df))) = 2

\* both runs are about to write the model files from the same absorption point
C21_WitnessBothWrite ==
    \A r \in Overlapping : pc[r] = "fc_dump_pkl"

\* C22: the model state is replaced as one record.  At every moment of a
\* Forecaster run a reader of the two model files finds the pair the run
\* found, or a pair the run has written whole: never a pickle that has changed
\* next to the metadata the run found.
C22_AtomicReplace ==
    \A r \in Procs :
        (loc[r].script = FORECASTER /\ pc[r] \in TryPcs) =>
            (modelPkl # pre[r].modelPkl => modelMeta # pre[r].modelMeta)

\* the new pickle next to the old metadata, in a run that no failure has touched
NewBlobOldMetadata ==
    \E r \in Procs :
        /\ pc[r] = "fc_dump_meta"
        /\ modelPkl.endog = loc[r].fitted
        /\ modelPkl # pre[r].modelPkl
        /\ modelMeta = pre[r].modelMeta
        /\ modelMeta.meta.last_observed # loc[r].meta.last_observed

\* What does hold of save_model: once both writes are done the two files hold
\* exactly the pickle and the metadata handed to it, whatever they held before.
SaveModelReplacesFiles ==
    \A r \in Procs :
        pc[r] = "fc_log_update" =>
            /\ modelPkl = [exists |-> TRUE, endog |-> loc[r].fitted]
            /\ modelMeta = [exists |-> TRUE, meta |-> loc[r].meta]

\* C23: a raw snapshot is write-once.  No step of any run removes an archived
\* file or changes the content at its path.
C23_RawSnapshotWriteOnce ==
    [][\A f \in raw : f \in raw']_vars

\* the monthly ingest is about to archive under a path that holds another payload
RawSnapshotOverwritten ==
    \E r \in Procs :
        /\ pc[r] = "mi_save_raw"
        /\ \E f \in raw : /\ f.path = [dir |-> "monthly", name |-> loc[r].next_month]
                          /\ f.data # loc[r].data

\* What does hold: the archive keeps every path it has, and a backfill never
\* touches a file that is there, its file name carrying the time of the call.
RawPathsKept ==
    [][/\ {f.path : f \in raw} \subseteq {f.path : f \in raw'}
       /\ (\E r \in Procs : pc[r] = "bf_save_raw") => (\A f \in raw : f \in raw')]_vars

\* the batch in every order of its rows
Reordered(batch) ==
    {[i \in 1..Len(batch) |-> batch[f[i]]] : f \in Permutations(1..Len(batch))}

\* C24: the order of the observations of a batch is irrelevant.  Whatever the
\* store holds and whatever the batch, rows of one period with different
\* values included, an application leaves the table as the application of the
\* batch in any other order would have left it.
C24_OrderIrrelevant ==
    [][\A r \in Procs :
          (pc[r] = "apply" /\ loc'[r].n = loc[r].n + 1) =>
              \A b \in Reordered(loc[r].batch) :
                  table' = UpsertElectricitySales(table, b)]_vars

\* What does hold: the order is irrelevant for a batch that holds each period
\* once; and for the processed file, where the rows are concatenated and
\* sorted, every order of the batch gives the same possible files.
OrderIrrelevantPerKey ==
    [][\A r \in Procs :
          (pc[r] = "apply" /\ loc'[r].n = loc[r].n + 1) =>
              \A b \in Reordered(loc[r].batch) :
                  /\ NoDuplicatePeriods(loc[r].batch)
                        => table' = UpsertElectricitySales(table, b)
                  /\ processed'.rows \in ApplyBatch(processed.rows, b)]_vars

\* a batch with two values for one period has been applied: the table holds the
\* value of the row that came last
LastRowWins ==
    \E r \in Procs :
        /\ pc[r] = "apply" /\ loc[r].n = 1
        /\ Len(loc[r].batch) = 2
        /\ loc[r].batch[1].period = loc[r].batch[2].period
        /\ loc[r].batch[1].sales # loc[r].batch[2].sales
        /\ \E x \in table : /\ x.period = ToDate(loc[r].batch[2].period)
                            /\ x.sales = SqlValue(loc[r].batch[2].sales)

\* the stored observations later than the absorption point
StoredAfter(t) == SelectSeq(processed.rows, LAMBDA row : TsLess(t, row.period))

\* the two sequences hold the same rows, each as often
SameRows(a, b) ==
    /\ Len(a) = Len(b)
    /\ \A i \in 1..Len(a) : Count(a, a[i]) = Count(b, a[i])

\* C25: the observations handed to the extend step are exactly the stored
\* observations later than the absorption point, each once, in strictly
\* ascending order of their periods.
C25_NewObsExactAscending ==
    \A r \in Procs :
        pc[r] = "fc_append" =>
            /\ SameRows(loc[r].new_obs, StoredAfter(loc[r].last_in_model))
            /\ \A i, j \in 1..Len(loc[r].new_obs) :
                  i < j => TsLess(loc[r].new_obs[i].period, loc[r].new_obs[j].period)

\* What does hold: they are exactly the stored observations later than the
\* absorption point, each once, and no observation comes before one of an
\* earlier period; the order is strict when the store holds each period once.
NewObsSorted ==
    \A r \in Procs :
        pc[r] = "fc_append" =>
            /\ SameRows(loc[r].new_obs, StoredAfter(loc[r].last_in_model))
            /\ \A i, j \in 1..Len(loc[r].new_obs) :
                  i < j => /\ TsLeq(loc[r].new_obs[i].period, loc[r].new_obs[j].period)
                           /\ NoDuplicatePeriods(processed.rows)
                                 => TsLess(loc[r].new_obs[i].period, loc[r].new_obs[j].period)

\* two observations of one period are handed to the extend step
NewObsRepeatsPeriod ==
    \E r \in Procs :
        /\ pc[r] = "fc_append"
        /\ Len(loc[r].new_obs) = 2
        /\ loc[r].new_obs[1].period = loc[r].new_obs[2].period
        /\ loc[r].new_obs[1].sales # loc[r].new_obs[2].sales

\* the processed files one whole run of the script can leave, started on the file
RunAlone(script, rows) ==
    IF script = BACKFILL
    THEN SortValues(TransformRows(Fetch(BackfillStart, BackfillEnd)))
    ELSE LET next_month == StrfYm(AddDelta(MaxPeriod(rows), RelativeDelta(1)))
             data == Fetch(next_month, next_month)
         IN  IF Transform(data) = <<>> THEN {rows} ELSE ApplyBatch(rows, Transform(data))

\* the processed files the two scripts can leave when one runs after the other
RunInOrder(first, second, rows) ==
    UNION {RunAlone(second, mid) : mid \in RunAlone(first, rows)}

\* C26: concurrent ingest runs are safe.  When two ingest runs that overlap in
\* any way have both ended, the store holds what the two runs leave in one of
\* the two serial orders; and no step of one run removes from the store the
\* observation of a period that is in it.
C26_ConcurrentIngestSafe ==
    /\ []((\A r \in Overlapping : pc[r] = "done") =>
             \E s0 \in StoredSeries :
                 processed.rows \in RunInOrder(loc[1].script, loc[2].script, s0)
                                      \cup RunInOrder(loc[2].script, loc[1].script, s0))
    /\ [][Periods(processed.rows) \subseteq Periods(processed'.rows)]_vars

\* a backfill has completed with the series through January 2025, the monthly
\* ingest that overlapped it has ended too, and the store ends in December 2024
LostObservation ==
    /\ \A r \in Overlapping : pc[r] = "done" /\ loc[r].outcome = "success"
    /\ \E i \in 1..Len(log) :
          /\ log[i].script = BACKFILL
          /\ log[i].status.args[3] = <<2025, 1>>
    /\ MaxPeriod(processed.rows) = Ts(2024, 12)

\* two monthly ingests that overlapped have both added December 2024: the
\* store holds the month once, and January 2025, which the second of two runs
\* in a row would have added, is missing
SameMonthFetchedTwice ==
    /\ \A r \in Overlapping :
          pc[r] = "done" /\ loc[r].script = MONTHLY /\ loc[r].outcome = "success"
    /\ Len(provider) = HistShort + 2
    /\ MaxPeriod(processed.rows) = Ts(2024, 12)

\* What does hold: two ingest runs of which the second starts when the first
\* has ended leave what the serial order leaves.
IngestOneAfterTheOther ==
    (/\ \A r \in Overlapping : pc[r] = "done"
     /\ \E r \in Overlapping : Len(pre[r].log) > 0) =>
        \E s0 \in StoredSeries :
            processed.rows \in RunInOrder(loc[1].script, loc[2].script, s0)
                                 \cup RunInOrder(loc[2].script, loc[1].script, s0)

\* the positions of the Forecaster up to the guard on new_obs
BeforeExtend == {"fc_load_processed", "fc_load_model", "fc_log_noupdate"}

\* the model files and the forecast files are as the run found them
ModelAndForecastsKept(r) ==
    /\ modelPkl = pre[r].modelPkl /\ modelMeta = pre[r].modelMeta
    /\ sarimaOut = pre[r].sarimaOut /\ snaiveOut = pre[r].snaiveOut

\* the processed file and the raw archive are as the run found them
StoreKept(r) == processed = pre[r].processed /\ raw = pre[r].raw

\* C27: frame of the runs.  Throughout an Ingestor run, whatever its mode and
\* outcome, the model files and the forecast files are as it found them;
\* throughout a Forecaster run the processed file and the raw archive are as
\* it found them; a Forecaster run that is before the guard on new_obs, fails
\* there, or has ended in no_update has changed no file but the log.  No step
\* writes a model file but the two writes of save_model in the Forecaster, none
\* writes a forecast file but its two appends, and none writes the processed
\* file or the archive but a step of an Ingestor.
C27_Frame ==
    /\ [](\A r \in Procs :
             /\ loc[r].script \in INGESTORS => ModelAndForecastsKept(r)
             /\ loc[r].script = FORECASTER =>
                   /\ StoreKept(r)
                   /\ (\/ pc[r] \in BeforeExtend
                       \/ pc[r] = "except" /\ loc[r].exc.at \in BeforeExtend
                       \/ pc[r] = "done" /\ loc[r].outcome = "no_update")
                         => ModelAndForecastsKept(r))
    /\ [][/\ (modelPkl' # modelPkl \/ modelMeta' # modelMeta) =>
                \E r \in Procs : /\ loc[r].script = FORECASTER
                                 /\ pc[r] \in {"fc_dump_pkl", "fc_dump_meta"}
          /\ (sarimaOut' # sarimaOut \/ snaiveOut' # snaiveOut) =>
                \E r \in Procs : /\ loc[r].script = FORECASTER
                                 /\ pc[r] \in {"fc_sarima", "fc_snaive"}
          /\ (processed' # processed \/ raw' # raw) =>
                \E r \in Procs : loc[r].script \in INGESTORS]_vars

\* an Ingestor run has changed the store next to a model and its forecasts
C27_Witness ==
    \E r \in Procs :
        /\ pc[r] = "done" /\ loc[r].script \in INGESTORS /\ loc[r].outcome = "success"
        /\ processed # pre[r].processed
        /\ modelPkl.exists /\ sarimaOut # <<>>

\* a Forecaster run has ended in no_update, and one has written the model and
\* its forecasts next to the store
C27_WitnessNoUpdate ==
    \E r \in Procs : Ended(r, FORECASTER, "no_update") /\ Len(log) = 1

C27_WitnessForecaster ==
    \E r \in Procs :
        /\ Ended(r, FORECASTER, "success")
        /\ modelPkl # pre[r].modelPkl /\ sarimaOut # pre[r].sarimaOut

\* C28: the model is never ahead of the store.  In every state the runs of the
\* Ingestor and the Forecaster reach, one after the other, from a model
\* trained on the stored series, last_observed is not later than the latest
\* stored period.
C28_ModelNotAheadOfStore ==
    (modelMeta.exists /\ processed.exists) =>
        TsLeq(Watermark(modelMeta), MaxPeriod(processed.rows))

\* a backfill has completed after the model absorbed a month later than the
\* end of the backfill window
BackfillBehindModel ==
    \E r \in Procs :
        /\ Ended(r, BACKFILL, "success")
        /\ modelMeta.exists
        /\ MaxPeriod(processed.rows) = ToDatetime(BackfillEnd)
        /\ TsLess(ToDatetime(BackfillEnd), Watermark(modelMeta))

\* What does hold: the Forecaster never puts the model ahead of the store, and
\* neither does the monthly ingest; the latest stored period goes back only in
\* a step of the backfill.
ModelAheadOnlyByBackfill ==
    [][(/\ modelMeta.exists /\ processed.exists
        /\ TsLeq(Watermark(modelMeta), MaxPeriod(processed.rows))
        /\ modelMeta'.exists /\ processed'.exists
        /\ ~TsLeq(Watermark(modelMeta'), MaxPeriod(processed'.rows)))
          => \E r \in Procs : loc[r].script = BACKFILL /\ pc[r] = "bf_transform"]_vars

\* the Forecaster has written the metadata with the latest stored period as
\* last_observed
WatermarkPersisted ==
    /\ modelMeta.exists
    /\ modelMeta.meta.updated_at # Unset
    /\ modelMeta.meta.last_observed = LastObserved(processed.rows)

\* both forecast files hold a row for the month after the latest stored period
ForecastsAppended ==
    /\ RowsFor(sarimaOut, NextPeriod(processed.rows)) # <<>>
    /\ RowsFor(snaiveOut, NextPeriod(processed.rows)) # <<>>

\* C29: once the Forecaster has persisted the advanced watermark P, the rows
\* for P + 1 of both models are eventually appended, also when the run was
\* interrupted after the persist step, given that the Forecaster keeps being
\* run and no observation arrives.
C29_ForecastFollowsWatermark ==
    WatermarkPersisted ~> ForecastsAppended

\* a run after the interrupted one has found the model up to date and has
\* ended in no_update, with no forecast row written
UpToDateWithoutForecast ==
    \E r \in Procs :
        /\ Ended(r, FORECASTER, "no_update")
        /\ WatermarkPersisted
        /\ sarimaOut = <<>> /\ snaiveOut = <<>>

\* What does hold: from a persisted watermark on, no run gets past the guard
\* on new_obs any more, so that the forecast files stay as they are.
NoForecastAfterWatermark ==
    [][(WatermarkPersisted /\ \A r \in Procs : pc[r] \in {Idle, "done", "except"} \cup BeforeExtend)
          => (sarimaOut' = sarimaOut /\ snaiveOut' = snaiveOut
              /\ \A r \in Procs : pc'[r] \in {Idle, "done", "except"} \cup BeforeExtend)]_vars

\* the observations the run found later than the absorption point it found
LaggedBy(r) == NewObs(pre[r].processed.rows, Watermark(pre[r].modelMeta))

\* the rows the run has appended to a forecast file
Appended(r, file, before) == SubSeq(file, Len(before) + 1, Len(file))

\* C30: a Forecaster run that absorbs more than one observation writes
\* forecasts for one target only, the month after the latest stored period.
\* At every moment of such a run the rows it has appended to either forecast
\* file are rows for that target, at most one per file, and none is a row for a
\* period it has absorbed; when it has ended in success each file has gained
\* exactly one row.
C30_OneTargetAfterLag ==
    \A r \in Procs :
        (FoundAll(r) /\ pre[r].modelMeta.meta.last_observed # Unset
           /\ pre[r].processed.rows # <<>> /\ Len(LaggedBy(r)) > 1) =>
            LET target == StrfYm(NextPeriod(pre[r].processed.rows))
                sarima == Appended(r, sarimaOut, pre[r].sarimaOut)
                snaive == Appended(r, snaiveOut, pre[r].snaiveOut)
            IN  /\ Len(sarima) <= 1 /\ Len(snaive) <= 1
                /\ \A i \in 1..Len(sarima) :
                      /\ sarima[i].period = target
                      /\ ToDatetime(sarima[i].period) \notin Periods(LaggedBy(r))
                /\ \A i \in 1..Len(snaive) :
                      /\ snaive[i].period = target
                      /\ ToDatetime(snaive[i].period) \notin Periods(LaggedBy(r))
                /\ (pc[r] = "done" /\ loc[r].outcome = "success")
                      => (Len(sarima) = 1 /\ Len(snaive) = 1)

\* a run that found the model two months behind has ended in success: the
\* model holds both months and each forecast file one row
C30_Witness ==
    \E r \in Procs :
        /\ Ended(r, FORECASTER, "success")
        /\ Len(LaggedBy(r)) = 2
        /\ modelPkl.endog = processed.rows
        /\ Len(sarimaOut) = 1 /\ Len(snaiveOut) = 1
        /\ sarimaOut[1].period = StrfYm(NextPeriod(processed.rows))

====
